---- MODULE Spec2Model ----
(***************************************************************************)
(* Model of vagrant/tournament/tournament.py: a Swiss-system tournament    *)
(* kept in a PostgreSQL database.  The tables are the state; every         *)
(* function of the module is an action.                                    *)
(*                                                                         *)
(* Conventions                                                             *)
(*   - players is the players table in insertion order; the serial         *)
(*     player_id of a row is its index.                                    *)
(*   - points are stored in half points (2 = 1.0, 1 = 0.5).                *)
(*   - opp_win is a fraction <<num, den>> in lowest terms, num in half     *)
(*     points; <<0, 0>> is SQL NULL.                                       *)
(*   - matches is the matches table, a bag of rows.                        *)
(*   - report_match is called with two distinct player ids of the current  *)
(*     tournament, as its docstring asks.                                  *)
(*   - ret is what the last call returned or printed; None for the calls   *)
(*     that return nothing.                                                *)
(*   - Spec is one tournament; the other specifications add one thing      *)
(*     each: further tournaments, the reset of the match log, a storage    *)
(*     collaborator that fails, a fair shuffle.                            *)
(***************************************************************************)
EXTENDS Integers, Sequences, FiniteSets, Bags, TLC

\* ------------------------------------------------------------------ bounds
MaxPlayers == 4
MaxMatches == 2
MaxTournament == 1
MaxNames == 1

\* A name is the rank of the text in the database's collation.
Names == 1..MaxNames
TournamentIds == 0..MaxTournament

\* ------------------------------------------------------------------- state
VARIABLES
    tournament_id,    \* the module global (line 20)
    players,          \* the players table
    matches,          \* the matches table
    opp_win_default,  \* the column default of players.opp_win (schema)
    prev_bye,         \* global of swiss_pairings
    bye_player,       \* global of swiss_pairings: the player_id of the row
    pc,               \* "idle", or "bye_loop" inside swiss_pairings
    ret               \* what the last call returned or printed

vars == <<tournament_id, players, matches, opp_win_default,
          prev_bye, bye_player, pc, ret>>

Null == <<0, 0>>
Zero == <<0, 1>>
NoPlayer == 0
None == [op |-> "none"]

\* ----------------------------------------------------------------- helpers
RECURSIVE GCD(_, _)
GCD(a, b) == IF b = 0 THEN a ELSE GCD(b, a % b)

\* float(player_sum) / len(opponents), for len(opponents) > 0
Fraction(num, den) ==
    LET g == GCD(num, den) IN <<num \div g, den \div g>>

\* opp_win ascending, NULLs last (PostgreSQL's default for ASC)
OppWinLess(a, b) ==
    IF a = Null THEN FALSE
    ELSE IF b = Null THEN TRUE
    ELSE a[1] * b[2] < b[1] * a[2]

\* The answers a query with an ORDER BY can give: every listing of the rows S
\* in which no row comes after one it sorts strictly before.  Rows that tie
\* on the whole sort key come back in an order the database chooses.
\* Before is the set of pairs <<i, j>> with row i sorting strictly before j.
RECURSIVE OrderBy(_, _)
OrderBy(S, Before) ==
    IF S = {} THEN {<<>>}
    ELSE UNION {{<<x>> \o q : q \in OrderBy(S \ {x}, Before)} :
                  x \in {m \in S : \A y \in S : <<y, m>> \notin Before}}

RECURSIVE SumTo(_, _)
SumTo(s, n) == IF n = 0 THEN 0 ELSE s[n] + SumTo(s, n - 1)

SumSeq(s) == SumTo(s, Len(s))

RemoveAt(s, i) == SubSeq(s, 1, i - 1) \o SubSeq(s, i + 1, Len(s))

\* Players of tournament t (WHERE tournament_id = %s)
InTournament(P, t) == {i \in DOMAIN P : P[i].tournament_id = t}

\* ------------------------------------------------------- set_tournament_id
\* The tournaments table is written by new_tournament and read by main()
\* only; it is not part of the model.
set_tournament_id(t_id) ==
    /\ pc = "idle"
    /\ tournament_id' = t_id
    /\ ret' = None
    /\ UNCHANGED <<players, matches, opp_win_default, prev_bye, bye_player, pc>>

\* --------------------------------------------------------- register_player
\* The columns the INSERT of lines 96-97 leaves to the schema.  The schema is
\* not part of the source: score and matches played start at 0, no bye; the
\* opponent strength starts as 0 or as NULL, and the model keeps both.
ColumnDefaults == [points |-> 0, matches_played |-> 0, bye |-> FALSE]

OppWinDefaults == {Null, Zero}

NewPlayer(name, t) ==
    [name |-> name, tournament_id |-> t, prev_opponents |-> <<>>,
     points |-> ColumnDefaults.points,
     matches_played |-> ColumnDefaults.matches_played,
     bye |-> ColumnDefaults.bye,
     opp_win |-> opp_win_default]

register_player(name) ==
    /\ pc = "idle"
    /\ Len(players) < MaxPlayers
    /\ players' = Append(players, NewPlayer(name, tournament_id))
    /\ ret' = None
    /\ UNCHANGED <<tournament_id, matches, opp_win_default,
                   prev_bye, bye_player, pc>>

\* ---------------------------------------------------------- delete_matches
delete_matches ==
    /\ pc = "idle"
    /\ matches' = [r \in {m \in DOMAIN matches : m.tournament_id # tournament_id}
                     |-> matches[r]]
    /\ ret' = None
    /\ UNCHANGED <<tournament_id, players, opp_win_default,
                   prev_bye, bye_player, pc>>

\* -------------------------------------------------------- player_standings
StandingsRow(P, i) == <<i, P[i].name, P[i].points, P[i].matches_played>>

\* ORDER BY points DESC, opp_win, name: row i sorts strictly before row j
StandingsBefore(P, i, j) ==
    \/ P[i].points > P[j].points
    \/ /\ P[i].points = P[j].points
       /\ \/ OppWinLess(P[i].opp_win, P[j].opp_win)
          \/ /\ P[i].opp_win = P[j].opp_win
             /\ P[i].name < P[j].name

\* lines 113-117
player_standings(P, t) ==
    {[k \in DOMAIN q |-> StandingsRow(P, q[k])] :
        q \in OrderBy(InTournament(P, t),
                     {ij \in InTournament(P, t) \X InTournament(P, t) :
                          StandingsBefore(P, ij[1], ij[2])})}

\* ------------------------------------------------------------ report_match
\* Every report adds one point in total and every bye adds one, so the number
\* of reports made so far is read off the table; it bounds the model.
Byes(P) == Cardinality({i \in DOMAIN P : P[i].bye})
Reported(P) == (SumSeq([i \in DOMAIN P |-> P[i].points]) \div 2) - Byes(P)

Played(P) == SumSeq([i \in DOMAIN P |-> P[i].matches_played])

\* the loser's statement without the opponent appended
UpdateLoser_NoHistory(P, winner, loser, t) ==
    [i \in DOMAIN P |->
        IF i = loser /\ P[i].tournament_id = t
        THEN [P[i] EXCEPT !.matches_played = @ + 1]
        ELSE P[i]]

\* the loser's statement copied from the winner's, points included
UpdateLoser_WithPoints(P, winner, loser, t) ==
    [i \in DOMAIN P |->
        IF i = loser /\ P[i].tournament_id = t
        THEN [P[i] EXCEPT !.points = @ + 2,
                          !.matches_played = @ + 1,
                          !.prev_opponents = Append(@, winner)]
        ELSE P[i]]

\* lines 133-137: the row of the loser
UpdateLoser(P, winner, loser, t) ==
    [i \in DOMAIN P |->
        IF i = loser /\ P[i].tournament_id = t
        THEN [P[i] EXCEPT !.matches_played = @ + 1,
                          !.prev_opponents = Append(@, winner)]
        ELSE P[i]]

\* the winner's statement without the matches_played column
UpdateWinner_NotCounted(P, winner, loser, t) ==
    [i \in DOMAIN P |->
        IF i = winner /\ P[i].tournament_id = t
        THEN [P[i] EXCEPT !.points = @ + 2,
                          !.prev_opponents = Append(@, loser)]
        ELSE P[i]]

\* lines 138-142: the row of the winner
UpdateWinner(P, winner, loser, t) ==
    [i \in DOMAIN P |->
        IF i = winner /\ P[i].tournament_id = t
        THEN [P[i] EXCEPT !.points = @ + 2,
                          !.matches_played = @ + 1,
                          !.prev_opponents = Append(@, loser)]
        ELSE P[i]]

\* lines 144-148: range(0, 1) runs the statement once, on both rows
UpdateDraw(P, winner, loser, t) ==
    [i \in DOMAIN P |->
        IF (i = winner \/ i = loser) /\ P[i].tournament_id = t
        THEN [P[i] EXCEPT !.points = @ + 1]
        ELSE P[i]]

MatchRow(winner, loser, t, draw) ==
    [winner |-> winner, loser |-> loser, tournament_id |-> t, draw |-> draw]

\* lines 149-150
InsertMatch(M, winner, loser, t, draw) ==
    M (+) SetToBag({MatchRow(winner, loser, t, draw)})

\* Number of statements report_match issues; each is committed on its own
\* connection by execute_query.
Statements(draw) == IF draw THEN 2 ELSE 3

\* The tables after the first k statements of report_match.
AfterStatements(P, M, winner, loser, draw, t, k) ==
    IF draw
    THEN LET P1 == IF k >= 1 THEN UpdateDraw(P, winner, loser, t) ELSE P
             M1 == IF k >= 2 THEN InsertMatch(M, winner, loser, t, draw) ELSE M
         IN  <<P1, M1>>
    ELSE LET P1 == IF k >= 1 THEN UpdateLoser(P, winner, loser, t) ELSE P
             P2 == IF k >= 2 THEN UpdateWinner(P1, winner, loser, t) ELSE P1
             M1 == IF k >= 3 THEN InsertMatch(M, winner, loser, t, draw) ELSE M
         IN  <<P2, M1>>

report_match(winner, loser, draw) ==
    /\ pc = "idle"
    /\ Reported(players) < MaxMatches
    /\ \E after \in {AfterStatements(players, matches, winner, loser, draw,
                                      tournament_id, Statements(draw))} :
          /\ players' = after[1]
          /\ matches' = after[2]
    /\ ret' = None
    /\ UNCHANGED <<tournament_id, opp_win_default, prev_bye,
                   bye_player, pc>>

\* A statement of report_match fails (StorageError): the k statements before
\* it stay committed and the exception reaches the caller.
report_match_fails(winner, loser, draw, k) ==
    /\ pc = "idle"
    /\ Reported(players) < MaxMatches
    /\ Played(players) < MaxMatches
    /\ \E after \in {AfterStatements(players, matches, winner, loser, draw,
                                      tournament_id, k)} :
          /\ players' = after[1]
          /\ matches' = after[2]
    /\ ret' = [op |-> "report_match", status |-> "StorageError"]
    /\ UNCHANGED <<tournament_id, opp_win_default, prev_bye,
                   bye_player, pc>>

\* ---------------------------------------------------------- swiss_pairings
\* Python values, as far as `in` (line 189) tells them apart.
PyInt(n) == [type |-> "int", val |-> n]
PyTuple(s) == [type |-> "tuple", val |-> s]
PyEq(a, b) == a.type = b.type /\ a.val = b.val
PyIn(x, list) == \E k \in DOMAIN list : PyEq(x, list[k])

\* lines 185-187: fetchall() gives a list of rows, each row a tuple whose
\* only column is the array
SelectPrevOpponents(P, id) == <<PyTuple(<<P[id].prev_opponents>>)>>

\* the flag is never found set
SelectBye_NeverSet(P, id) == FALSE

\* lines 177-179
SelectBye(P, id) == P[id].bye

\* the WHERE clause without player_id
assign_bye_Everyone(P, player, t) ==
    [i \in DOMAIN P |->
        IF P[i].tournament_id = t
        THEN [P[i] EXCEPT !.bye = TRUE, !.points = @ + 2]
        ELSE P[i]]

\* lines 236-244
assign_bye(P, player, t) ==
    [i \in DOMAIN P |->
        IF i = player /\ P[i].tournament_id = t
        THEN [P[i] EXCEPT !.bye = TRUE, !.points = @ + 2]
        ELSE P[i]]

\* line 175: random.shuffle leaves the list in any order
Shuffle(standings) ==
    {[k \in DOMAIN standings |-> standings[q[k]]] :
        q \in OrderBy(DOMAIN standings, {})}

\* the shuffled list is paired as it is
Refetch_KeepsShuffle(P, t, shuffled) == {shuffled}

\* line 180: the standings are read again, the shuffled list is dropped
Refetch(P, t, shuffled) == player_standings(P, t)

\* the row is not found and nothing goes
ListRemove_Nothing(s, x) == s

\* list.remove: the first element equal to x goes
ListRemove(s, x) ==
    RemoveAt(s, CHOOSE k \in DOMAIN s : s[k] = x /\ \A j \in 1..(k - 1) : s[j] # x)

\* the scan always runs to the end of the list
ScanPartner_Last(standings, prev_opponents, idx) == Len(standings)

\* lines 188-192: the index of the partner of standings[0]; indices are
\* 1-based here, so the scan starts at 2 and stops at Len(standings)
RECURSIVE ScanPartner(_, _, _)
ScanPartner(standings, prev_opponents, idx) ==
    IF PyIn(PyInt(standings[idx][1]), prev_opponents) /\ idx # Len(standings)
    THEN ScanPartner(standings, prev_opponents, idx + 1)
    ELSE idx

\* lines 193-194
PairRow(a, b) == <<a[1], a[2], b[1], b[2]>>

\* standings.pop(0) forgotten
PopPair_KeepsFirst(standings, idx) == RemoveAt(standings, idx)

\* lines 195-196
PopPair(standings, idx) == Tail(RemoveAt(standings, idx))

\* lines 183-198
RECURSIVE PairLoop(_, _, _)
PairLoop(P, standings, pairings) ==
    IF Len(standings) > 1
    THEN LET prev_opponents == SelectPrevOpponents(P, standings[1][1])
             idx == ScanPartner(standings, prev_opponents, 2)
         IN  PairLoop(P, PopPair(standings, idx),
                      Append(pairings, PairRow(standings[1], standings[idx])))
    ELSE pairings

SwissReturn(standings, pairings) ==
    [op |-> "swiss_pairings", status |-> "ok",
     standings |-> standings, value |-> pairings]

\* lines 168-172 and 183-198: an even number of players
swiss_pairings_even ==
    /\ pc = "idle"
    /\ Cardinality(InTournament(players, tournament_id)) % 2 = 0
    /\ \E standings \in player_standings(players, tournament_id) :
          ret' = SwissReturn(standings, PairLoop(players, standings, <<>>))
    /\ UNCHANGED <<tournament_id, players, matches,
                   opp_win_default, prev_bye, bye_player, pc>>

\* lines 168-173: an odd number of players, up to the while loop
swiss_pairings_odd ==
    /\ pc = "idle"
    /\ Cardinality(InTournament(players, tournament_id)) % 2 # 0
    /\ prev_bye' = TRUE
    /\ pc' = "bye_loop"
    /\ ret' = None
    /\ UNCHANGED <<tournament_id, players, matches,
                   opp_win_default, bye_player>>

\* lines 174-179: one turn of the loop that draws a player who had a bye
bye_loop_again ==
    /\ pc = "bye_loop"
    /\ \E first \in InTournament(players, tournament_id) :   \* standings[0]
          /\ SelectBye(players, first)
          /\ bye_player' = first
          /\ prev_bye' = TRUE
    /\ UNCHANGED <<tournament_id, players, matches,
                   opp_win_default, pc, ret>>

\* lines 174-198: the turn that draws a player without a bye, and the rest
bye_loop_exit ==
    /\ pc = "bye_loop"
    /\ \E listed \in player_standings(players, tournament_id) :  \* line 168
       \E shuffled \in Shuffle(listed) :                         \* line 175
       \E fresh \in Refetch(players, tournament_id, shuffled) :  \* line 180
          LET first == shuffled[1][1]                            \* line 176
              standings == ListRemove(fresh, StandingsRow(players, first))
              P == assign_bye(players, first, tournament_id)
          IN  /\ ~SelectBye(players, first)
              /\ bye_player' = first
              /\ prev_bye' = FALSE
              /\ players' = P
              /\ ret' = SwissReturn(standings, PairLoop(P, standings, <<>>))
    /\ pc' = "idle"
    /\ UNCHANGED <<tournament_id, matches, opp_win_default>>

\* ---------------------------------------------------------- final_rankings
\* lines 210-213: ORDER BY points DESC, name
RankingBefore(P, i, j) ==
    \/ P[i].points > P[j].points
    \/ P[i].points = P[j].points /\ P[i].name < P[j].name

SelectForRanking(P, t) ==
    OrderBy(InTournament(P, t),
            {ij \in InTournament(P, t) \X InTournament(P, t) :
                 RankingBefore(P, ij[1], ij[2])})

\* lines 215-219
player_sum(P, opponents) == SumSeq([k \in DOMAIN opponents |-> P[opponents[k]].points])

\* lines 214-222: the table after the loop, and whether the loop ended
\* without a ZeroDivisionError
RECURSIVE UpdateOppWin(_, _)
UpdateOppWin(P, order) ==
    IF order = <<>> THEN [table |-> P, ok |-> TRUE]
    ELSE LET player == Head(order)
             opponents == P[player].prev_opponents
         IN  IF Len(opponents) = 0
             THEN [table |-> P, ok |-> FALSE]
             ELSE UpdateOppWin(
                    [P EXCEPT ![player].opp_win =
                        Fraction(player_sum(P, opponents), Len(opponents))],
                    Tail(order))

\* lines 223-224: ORDER BY points DESC, opp_win DESC, name, over all players
FinalBefore(P, i, j) ==
    \/ P[i].points > P[j].points
    \/ /\ P[i].points = P[j].points
       /\ \/ OppWinLess(P[j].opp_win, P[i].opp_win)
          \/ /\ P[i].opp_win = P[j].opp_win
             /\ P[i].name < P[j].name

FinalRow(P, i) == <<P[i].name, P[i].points, P[i].opp_win>>

SelectFinal(P) ==
    {[k \in DOMAIN q |-> FinalRow(P, q[k])] :
        q \in OrderBy(DOMAIN P,
                     {ij \in (DOMAIN P) \X (DOMAIN P) :
                          FinalBefore(P, ij[1], ij[2])})}

\* lines 206-208 and 226-233: the printed lines <<rank, row>>
RECURSIVE RankLoop(_, _, _, _, _)
RankLoop(standings, ties, last_record, rank, printed) ==
    IF standings = <<>> THEN printed
    ELSE LET player == Head(standings)
             record == <<player[2], player[3]>>
             differs == record # last_record
             rank1 == IF differs THEN rank + 1 * ties ELSE rank
             ties1 == IF differs THEN 1 ELSE ties + 1
         IN  RankLoop(Tail(standings), ties1, record, rank1,
                      Append(printed, <<rank1, player>>))

final_rankings ==
    /\ pc = "idle"
    /\ \E order \in SelectForRanking(players, tournament_id) :
       \E done \in {UpdateOppWin(players, order)} :
              /\ players' = done.table
              /\ IF done.ok
                 THEN \E standings \in SelectFinal(done.table) :
                        ret' = [op |-> "final_rankings", status |-> "ok",
                                value |-> RankLoop(standings, 1, <<0, Zero>>, 0, <<>>)]
                 ELSE ret' = [op |-> "final_rankings",
                              status |-> "ZeroDivisionError"]
    /\ UNCHANGED <<tournament_id, matches, opp_win_default,
                   prev_bye, bye_player, pc>>

\* ------------------------------------------------------------ the program
\* The state after main() (lines 247-260): tournament 0 exists and is current.
Init ==
    /\ tournament_id = 0
    /\ players = <<>>
    /\ matches = EmptyBag
    /\ opp_win_default \in OppWinDefaults
    /\ prev_bye = FALSE
    /\ bye_player = NoPlayer
    /\ pc = "idle"
    /\ ret = None

ReportMatch ==
    \E winner, loser \in InTournament(players, tournament_id) :
    \E draw \in BOOLEAN :
        winner # loser /\ report_match(winner, loser, draw)

ReportMatchFails ==
    \E winner, loser \in InTournament(players, tournament_id) :
    \E draw \in BOOLEAN :
    \E k \in 0..(Statements(draw) - 1) :
        winner # loser /\ report_match_fails(winner, loser, draw, k)

\* One tournament: the calls the header of the file lists (lines 5-15).
Next ==
    \/ \E n \in Names : register_player(n)
    \/ ReportMatch
    \/ swiss_pairings_even
    \/ swiss_pairings_odd
    \/ bye_loop_again
    \/ bye_loop_exit
    \/ final_rankings

Spec == Init /\ [][Next]_vars

\* Several tournaments in the same database, without pairing rounds.
NextTournaments ==
    \/ \E t \in TournamentIds : set_tournament_id(t)
    \/ \E n \in Names : register_player(n)
    \/ ReportMatch
    \/ final_rankings

TournamentsSpec == Init /\ [][NextTournaments]_vars

\* With the reset of the match log, and without the final ranking.
NextReset ==
    \/ \E n \in Names : register_player(n)
    \/ ReportMatch
    \/ swiss_pairings_even
    \/ swiss_pairings_odd
    \/ bye_loop_again
    \/ bye_loop_exit
    \/ delete_matches

ResetSpec == Init /\ [][NextReset]_vars

\* The same program with a storage collaborator that can fail a statement.
NextStorageFails ==
    \/ \E n \in Names : register_player(n)
    \/ ReportMatch
    \/ ReportMatchFails

StorageFailSpec == Init /\ [][NextStorageFails]_vars

\* ================================================================== claims
Current == InTournament(players, tournament_id)

PairIds(pair) == {pair[1], pair[3]}

PairedIds(pairings) == UNION {PairIds(pairings[k]) : k \in DOMAIN pairings}

\* The pairs are disjoint and none holds a player twice.
DisjointPairs(pairings) ==
    /\ \A k \in DOMAIN pairings : pairings[k][1] # pairings[k][3]
    /\ \A j, k \in DOMAIN pairings :
          j # k => PairIds(pairings[j]) \cap PairIds(pairings[k]) = {}

\* How many of the pairs hold player p.
TimesPaired(pairings, p) ==
    Cardinality({k \in DOMAIN pairings : p \in PairIds(pairings[k])})

\* C1: with an even number K of players in the tournament, swiss_pairings
\* returns exactly K/2 pairs, the pairs are disjoint, no pair holds a player
\* twice, and every player of the tournament is in exactly one pair.
C1_EvenPairsCoverEveryone ==
    (ret.op = "swiss_pairings" /\ Cardinality(Current) % 2 = 0) =>
        /\ Len(ret.value) = Cardinality(Current) \div 2
        /\ DisjointPairs(ret.value)
        /\ PairedIds(ret.value) \subseteq Current
        /\ \A p \in Current : TimesPaired(ret.value, p) = 1

\* Four players, matches already played, and a pairing returned.
C1_Witness ==
    /\ ret.op = "swiss_pairings"
    /\ Cardinality(Current) = 4
    /\ Len(ret.value) = 2
    /\ \E p \in Current : players[p].matches_played > 0

\* C2: with an odd number K of players, one of them without a bye, the call
\* returns (K-1)/2 disjoint pairs that cover every player but one; that one
\* player gets the bye in the same call and nobody else does.
C2_OddPairsLeaveTheByePlayer ==
    [][/\ pc' = "bye_loop" => players' = players
       /\ (pc = "bye_loop" /\ pc' = "idle") =>
            LET pairings == ret'.value
                unpaired == Current \ PairedIds(pairings)
                flagged == {p \in DOMAIN players :
                              players'[p].bye /\ ~players[p].bye}
                credited == {p \in DOMAIN players :
                              players'[p].points # players[p].points}
            IN  /\ Cardinality(Current) % 2 = 1
                /\ \E p \in Current : ~players[p].bye
                /\ Len(pairings) = (Cardinality(Current) - 1) \div 2
                /\ DisjointPairs(pairings)
                /\ PairedIds(pairings) \subseteq Current
                /\ Cardinality(unpaired) = 1
                /\ flagged = unpaired
                /\ credited = unpaired
                /\ \A p \in DOMAIN players :
                      players[p].bye => players'[p].bye]_vars

\* Three players, one pair returned and one player left with the bye.
C2_Witness ==
    /\ ret.op = "swiss_pairings"
    /\ Cardinality(Current) = 3
    /\ Len(ret.value) = 1
    /\ Cardinality({p \in Current : players[p].bye}) = 1
    /\ \E p \in Current : players[p].matches_played > 0

\* The pairing the forward scan of the specification gives: the partner of
\* the top player is the first remaining one who is not in the top player's
\* opponent history, and the last remaining one when all are.
NearestNewOpponent(P, standings) ==
    LET history == P[standings[1][1]].prev_opponents
        fresh == {k \in 2..Len(standings) :
                    \A h \in DOMAIN history : history[h] # standings[k][1]}
    IN  IF fresh = {} THEN Len(standings)
        ELSE CHOOSE k \in fresh : \A j \in fresh : k <= j

RECURSIVE ForwardScanPairs(_, _, _)
ForwardScanPairs(P, standings, pairings) ==
    IF Len(standings) > 1
    THEN LET idx == NearestNewOpponent(P, standings)
         IN  ForwardScanPairs(P, Tail(RemoveAt(standings, idx)),
                 Append(pairings, <<standings[1][1], standings[1][2],
                                    standings[idx][1], standings[idx][2]>>))
    ELSE pairings

\* C3: each top remaining player is paired with the nearest remaining player
\* (in standings order) who is not in the top player's opponent history, and
\* with the last remaining player only when all of them are; so standings
\* [A,B,C,D] with A and B having played give {A,C},{B,D}.
C3_PartnerIsNearestNewOpponent ==
    ret.op = "swiss_pairings" =>
        ret.value = ForwardScanPairs(players, ret.standings, <<>>)

\* C4: no player's opponent history holds the same opponent id twice.
C4_NoRepeatedOpponent ==
    \A p \in DOMAIN players :
        \A j, k \in DOMAIN players[p].prev_opponents :
            j # k => players[p].prev_opponents[j] # players[p].prev_opponents[k]

\* What report_match is documented to do to the two players of a match,
\* apart from the score.
PlayedAndRemembered(winner, loser) ==
    /\ players'[winner].matches_played = players[winner].matches_played + 1
    /\ players'[loser].matches_played = players[loser].matches_played + 1
    /\ players'[winner].prev_opponents =
          Append(players[winner].prev_opponents, loser)
    /\ players'[loser].prev_opponents =
          Append(players[loser].prev_opponents, winner)

\* C5: a draw between two distinct players of the tournament adds 0.5 to the
\* score of each, 1 to the matches_played of each, and each player's id to
\* the other's opponent history.
C5_DrawCountsAsPlayed ==
    [][\A winner, loser \in Current :
          (winner # loser /\ report_match(winner, loser, TRUE)) =>
              /\ players'[winner].points = players[winner].points + 1
              /\ players'[loser].points = players[loser].points + 1
              /\ PlayedAndRemembered(winner, loser)]_vars

\* C6: a decisive result between two distinct players of the tournament adds
\* 1.0 to the winner's score and nothing to the loser's, 1 to the
\* matches_played of both, each id to the other's history, exactly one match
\* record (winner, loser, tournament id, draw flag), and leaves every other
\* player's score, matches_played, history and bye flag as they were.
C6_DecisiveResultEffect ==
    [][\A winner, loser \in Current :
          (winner # loser /\ report_match(winner, loser, FALSE)) =>
              /\ players'[winner].points = players[winner].points + 2
              /\ players'[loser].points = players[loser].points
              /\ PlayedAndRemembered(winner, loser)
              /\ matches' = matches (+)
                    SetToBag({[winner |-> winner, loser |-> loser,
                               tournament_id |-> tournament_id,
                               draw |-> FALSE]})
              /\ BagCardinality(matches') = BagCardinality(matches) + 1
              /\ DOMAIN players' = DOMAIN players
              /\ \A p \in DOMAIN players \ {winner, loser} :
                    /\ players'[p].points = players[p].points
                    /\ players'[p].matches_played = players[p].matches_played
                    /\ players'[p].prev_opponents = players[p].prev_opponents
                    /\ players'[p].bye = players[p].bye]_vars

\* A decisive result is on record, with a third player looking on.
C6_Witness ==
    /\ ret = None
    /\ \E m \in BagToSet(matches) : ~m.draw
    /\ Cardinality(Current) >= 3
    /\ \E p \in Current : players[p].matches_played = 0

\* C7: a report_match call that fails on a storage statement leaves no effect
\* behind: no score, matches_played or history changes without the match
\* record, and never one player of the match without the other.
C7_FailedReportChangesNothing ==
    [][ret'.op = "report_match" =>
          players' = players /\ matches' = matches]_vars

\* C8: a bye goes only to a player whose bye flag is false when the player is
\* selected, the flag is set by it and never cleared, so nobody is credited
\* with a bye twice.
C8_ByeOnlyOnce ==
    [][\A p \in DOMAIN players :
          /\ players[p].bye => players'[p].bye
          /\ (pc = "bye_loop" /\ pc' = "idle" /\ bye_player' = p) =>
                /\ ~players[p].bye
                /\ players'[p].bye
                /\ players'[p].points = players[p].points + 2
          /\ (players[p].bye /\ players'[p].points # players[p].points) =>
                pc = "idle"]_vars

\* A second pairing round has given the bye to a second player.
C8_Witness ==
    /\ ret.op = "swiss_pairings"
    /\ Cardinality({p \in Current : players[p].bye}) >= 2
    /\ players[bye_player].bye

\* The pairing call under a scheduler that keeps the loop of lines 174-179
\* running and a shuffle that is fair: a player who can end the loop is
\* drawn sooner or later.
FairSpec ==
    /\ Spec
    /\ WF_vars(bye_loop_again \/ bye_loop_exit)
    /\ SF_vars(bye_loop_exit)

\* C9: every call of swiss_pairings completes; it never loops forever, also
\* when every player of an odd tournament has had a bye.
\* An iteration of the loop that draws the same player again leaves every
\* variable as it was: the code keeps running, the model stutters.  Under
\* FairSpec a behaviour may stay in the loop for ever only when no step of
\* the loop is left that changes the state, that is when no draw ends it.
C9_SwissPairingsReturns == (pc = "bye_loop") ~> (pc = "idle")

\* The (score, opponent-strength) pair of a printed line <<rank, row>>.
RankedRecord(line) == <<line[2][2], line[2][3]>>

\* Pair a is strictly better than pair b in the final order.
StrictlyBetter(a, b) ==
    \/ a[1] > b[1]
    \/ a[1] = b[1] /\ OppWinLess(b[2], a[2])

\* C10: final_rankings assigns competition ranks: the rank of a player is 1
\* plus the number of players with a strictly better (score,
\* opponent-strength) pair, so equal pairs share a rank and the next rank
\* skips by the size of the tie; the first listed player has rank 1.
C10_CompetitionRanks ==
    (ret.op = "final_rankings" /\ ret.status = "ok") =>
        /\ \A k \in DOMAIN ret.value :
              ret.value[k][1] = 1 + Cardinality(
                  {j \in DOMAIN ret.value :
                      StrictlyBetter(RankedRecord(ret.value[j]),
                                     RankedRecord(ret.value[k]))})
        /\ ret.value # <<>> => ret.value[1][1] = 1

\* C11: final_rankings never fails with a division by zero, also when a
\* player of the tournament has an empty opponent history (just registered,
\* bye only, draws only).
C11_FinalRankingsNeverDividesByZero ==
    ret.op = "final_rankings" => ret.status # "ZeroDivisionError"

\* C12: a swiss_pairings call on a tournament of fewer than two players ends
\* with a ConfigurationError and leaves the players table as it was (no bye,
\* no score).
C12_TooFewPlayersIsAnError ==
    [][(Cardinality(Current) < 2 /\ ret'.op = "swiss_pairings") =>
          /\ ret'.status = "ConfigurationError"
          /\ players' = players]_vars

\* The match records of the current tournament, and the matches played by
\* its players.
MatchesReported ==
    BagCardinality([m \in {r \in DOMAIN matches :
                             r.tournament_id = tournament_id} |-> matches[m]])

MatchesPlayed ==
    SumSeq([i \in DOMAIN players |->
              IF i \in Current THEN players[i].matches_played ELSE 0])

\* C13: after N reported matches (draws and decisive results alike, byes not
\* counted) the matches_played of the tournament's players add up to 2N.
C13_MatchesPlayedIsTwiceReported == MatchesPlayed = 2 * MatchesReported

\* C14: every player's matches_played is the length of the player's
\* opponent history.
C14_PlayedIsHistoryLength ==
    \A p \in DOMAIN players :
        players[p].matches_played = Len(players[p].prev_opponents)

\* A decisive result, a draw and a bye are all on record.
C14_Witness ==
    /\ \E m \in BagToSet(matches) : m.draw
    /\ \E m \in BagToSet(matches) : ~m.draw
    /\ \E p \in Current : players[p].bye
    /\ \E p \in Current : players[p].matches_played > 0

\* How often player b occurs in the opponent history of player a.
TimesMet(a, b) ==
    Cardinality({k \in DOMAIN players[a].prev_opponents :
                    players[a].prev_opponents[k] = b})

\* C15: between completed operations the opponent histories are symmetric:
\* B occurs in A's history as often as A occurs in B's.
C15_HistoriesAreSymmetric ==
    pc = "idle" =>
        \A a, b \in DOMAIN players : TimesMet(a, b) = TimesMet(b, a)

\* Two players have met twice and a third has met neither.
C15_Witness ==
    /\ pc = "idle"
    /\ \E a, b, c \in Current :
          /\ TimesMet(a, b) = 2
          /\ TimesMet(b, a) = 2
          /\ players[c].prev_opponents = <<>>

\* A list paired by neighbours: the 1st with the 2nd, the 3rd with the 4th.
NeighbourPairs(standings) ==
    [k \in 1..(Len(standings) \div 2) |->
        <<standings[2 * k - 1][1], standings[2 * k - 1][2],
          standings[2 * k][1], standings[2 * k][2]>>]

\* No player of the tournament is in the history of another.
HaveNotMet == \A a, b \in Current : TimesMet(a, b) = 0

\* C16: with an even number of players who have not met, swiss_pairings
\* pairs the standings by neighbours (1st with 2nd, 3rd with 4th, ...), the
\* higher-ranked player first in each pair.
C16_FreshPlayersPairByNeighbours ==
    (ret.op = "swiss_pairings" /\ Cardinality(Current) % 2 = 0 /\ HaveNotMet) =>
        /\ ret.standings \in player_standings(players, tournament_id)
        /\ ret.value = NeighbourPairs(ret.standings)

\* Four players who have not met, not all on the same score, are paired.
C16_Witness ==
    /\ ret.op = "swiss_pairings"
    /\ Cardinality(Current) = 4
    /\ HaveNotMet
    /\ Len(ret.value) = 2
    /\ \E a, b \in Current : players[a].points > players[b].points

\* C17: a bye adds exactly 1.0 to the player's score and sets the bye flag,
\* leaves the player's history and matches_played alone, adds no match
\* record, changes no other player, and the player is in none of the pairs
\* the call returns.
C17_ByeEffect ==
    [][(pc = "bye_loop" /\ pc' = "idle") =>
          /\ DOMAIN players' = DOMAIN players
          /\ players'[bye_player'] =
                [players[bye_player'] EXCEPT !.points = @ + 2, !.bye = TRUE]
          /\ ~players[bye_player'].bye
          /\ \A q \in DOMAIN players \ {bye_player'} : players'[q] = players[q]
          /\ matches' = matches
          /\ bye_player' \notin PairedIds(ret'.value)]_vars

\* The winner of a match is given the bye while the other two are paired.
C17_Witness ==
    /\ ret.op = "swiss_pairings"
    /\ Cardinality(Current) = 3
    /\ Len(ret.value) = 1
    /\ bye_player \in Current
    /\ players[bye_player].bye
    /\ players[bye_player].points = 4
    /\ players[bye_player].matches_played = 1
    /\ BagCardinality(matches) = 1

\* The lists a call of swiss_pairings can be given to pair: the answers of
\* the database to the standings query, less the row of the bye player when
\* the call assigns one.
Pools ==
    IF pc = "bye_loop"
    THEN {ListRemove(f, StandingsRow(players, bye_player')) :
            f \in player_standings(players, tournament_id)}
    ELSE player_standings(players, tournament_id)

\* C18: the pairs returned are a function of the stored state and of the
\* bye player alone: whatever the database and the shuffle do, the same
\* state and the same bye player give the same pairs in the same order.
C18_PairsFixedByStateAndBye ==
    [][ret'.op = "swiss_pairings" =>
          \A f \in Pools : ret'.value = PairLoop(players', f, <<>>)]_vars

\* C18, amended: the pairs are a function of the list the standings query
\* returns and of the bye player: the list that is paired is an answer of
\* the database in its order, less the bye player, never the shuffled list.
\* Rows that tie on score, opponent strength and name come in the order the
\* database chooses.
C18_PairsFollowTheStandingsRead ==
    [][ret'.op = "swiss_pairings" =>
          /\ ret'.standings \in Pools
          /\ ret'.value = PairLoop(players', ret'.standings, <<>>)]_vars

\* Two players on different scores are paired after the third got the bye.
C18_Witness ==
    /\ ret.op = "swiss_pairings"
    /\ Cardinality(Current) = 3
    /\ Len(ret.value) = 1
    /\ players[ret.value[1][1]].points > players[ret.value[1][3]].points
    /\ bye_player \in Current \ PairIds(ret.value[1])

\* C19: final_rankings lists exactly the players of the current tournament;
\* players of other tournaments are not in the list and do not move a rank.
C19_RankingOfCurrentTournament ==
    (ret.op = "final_rankings" /\ ret.status = "ok") =>
        /\ Len(ret.value) = Cardinality(Current)
        /\ \A k \in DOMAIN ret.value :
              \E p \in Current : ret.value[k][2] = FinalRow(players, p)

\* The score the match log and the bye flag account for, in half points.
ScoreOnRecord(p) ==
    LET won == {r \in DOMAIN matches : ~r.draw /\ r.winner = p}
        drawn == {r \in DOMAIN matches : r.draw /\ p \in {r.winner, r.loser}}
    IN  2 * BagCardinality([r \in won |-> matches[r]])
        + BagCardinality([r \in drawn |-> matches[r]])
        + (IF players[p].bye THEN 2 ELSE 0)

\* C20: whatever is registered, reported, paired and deleted, the score of a
\* player is the number of stored decisive records the player won, plus 0.5
\* for each stored draw the player is in, plus 1 with the bye flag.
C20_ScoreMatchesTheLog ==
    \A p \in DOMAIN players : players[p].points = ScoreOnRecord(p)
====
